---- MODULE Spec2Model ----
(***************************************************************************)
(* A model of the pgf helper library (src/src/pgf): clean.py, stats.py and *)
(* plot.py.  Every library function is a stateless transform; the state of *)
(* the model is the caller's objects (a DataFrame, a Series, a matplotlib  *)
(* Axes), the arguments of the last call and what that call returned or    *)
(* raised.                                                                 *)
(*                                                                         *)
(* Real numbers are kept exact: a float is a rational [num, den] (den > 0, *)
(* not normalised) or NaN, and a ceiling of an irrational quotient is      *)
(* found by comparing integers, so no rounding is modelled.                *)
(***************************************************************************)
EXTENDS Integers, Sequences, FiniteSets, TLC

VARIABLES
    df,      \* the caller's DataFrame object
    series,  \* the caller's Series object
    ax,      \* the Axes the caller made for the last call (None if none), after it
    call,    \* the last call: function name and arguments
    ret      \* what the last call returned or raised

vars == <<df, series, ax, call, ret>>

---------------------------------------------------------------------------
(* Bounds of the model *)

MaxLen == 3        \* longest enumerated Series / most rows of a frame
MaxVal == 2        \* enumerated numeric cells are 0..MaxVal
MaxNameLen == 3    \* longest enumerated column name
MaxRows == 2       \* rows of the enumerated box_plot frames

---------------------------------------------------------------------------
(* Python values *)

PyNone == [t |-> "none"]
PyInt(n) == [t |-> "int", n |-> n]
PyBool(b) == [t |-> "bool", b |-> b]
PyStr(s) == [t |-> "str", s |-> s]
\* a float num/den, den > 0
PyFloat(num, den) == [t |-> "float", num |-> num, den |-> den]
PyNaN == [t |-> "nan"]

\* a cell of a Series or DataFrame column: a missing marker, a number or a string
NA == [t |-> "na"]
Num(n) == [t |-> "num", n |-> n]
IsNA(c) == c.t = "na"

SeqsUpTo(S, n) == UNION {[1..k -> S] : k \in 0..n}

NumCells == {Num(v) : v \in 0..MaxVal}

\* the sum of a sequence of numbers, by halves
RECURSIVE SumSeq(_)
SumSeq(s) ==
    IF s = <<>> THEN 0
    ELSE IF Len(s) = 1 THEN s[1]
    ELSE LET h == Len(s) \div 2
         IN  SumSeq(SubSeq(s, 1, h)) + SumSeq(SubSeq(s, h + 1, Len(s)))

\* numpy.sort / the ordering Series.quantile works on
Sort(s) == LET before(a, b) == a < b IN SortSeq(s, before)

\* Series.dropna().astype(float).to_numpy(): the non-missing numbers, in order
DropNA(cells) ==
    LET present(c) == ~IsNA(c)
        kept == SelectSeq(cells, present)
    IN  [i \in DOMAIN kept |-> kept[i].n]

\* Series.quantile(p), p = p4/4, default linear interpolation, as four times the
\* quantile of the non-missing values xs (NaN is reported by the caller for n = 0)
QuantileLoIndex(p4, n) == (p4 * (n - 1)) \div 4
Quantile4Lower(xs, p4) ==
    LET s == Sort(xs) IN 4 * s[QuantileLoIndex(p4, Len(s)) + 1]

Quantile4(xs, p4) ==
    LET s == Sort(xs)
        n == Len(s)
        lo == QuantileLoIndex(p4, n)
        r == (p4 * (n - 1)) % 4
    IN  IF r = 0 THEN 4 * s[lo + 1]
        ELSE 4 * s[lo + 1] + r * (s[lo + 2] - s[lo + 1])

---------------------------------------------------------------------------
(* stats.py *)

\* iqr_bounds(series, k) with k = k2/2; the cutoffs are returned in eighths
iqr_bounds(s, k2) ==
    LET xs == DropNA(s.values)
    IN  IF xs = <<>> THEN <<PyNaN, PyNaN>>
        ELSE LET q1 == Quantile4(xs, 1)
                 q3 == Quantile4(xs, 3)
                 iqr == q3 - q1
                 lower == 2 * q1 - k2 * iqr
                 upper == 2 * q3 + k2 * iqr
             IN  <<PyFloat(lower, 8), PyFloat(upper, 8)>>

---------------------------------------------------------------------------
(* Strings: a Python str is a sequence of characters.  ASCII characters stand *)
(* for themselves; "U+00E9" is e-acute, "U+0130" is capital I with dot above  *)
(* and "U+0307" is the combining dot above.                                    *)

Str(s) == [t |-> "str", s |-> s]
IsStr(c) == c.t = "str"

UpperAscii == <<"A", "B", "C", "D", "E", "F", "G", "H", "I", "J", "K", "L", "M",
                "N", "O", "P", "Q", "R", "S", "T", "U", "V", "W", "X", "Y", "Z">>
LowerAscii == <<"a", "b", "c", "d", "e", "f", "g", "h", "i", "j", "k", "l", "m",
                "n", "o", "p", "q", "r", "s", "t", "u", "v", "w", "x", "y", "z">>
Digits == {"0", "1", "2", "3", "4", "5", "6", "7", "8", "9"}
AsciiWordChars ==
    {UpperAscii[i] : i \in 1..26} \cup {LowerAscii[i] : i \in 1..26}
        \cup Digits \cup {"_"}
\* non-ASCII characters for which str.isalnum() is true
UnicodeAlnum == {"U+00E9", "U+00C9", "U+0130"}

\* str.isspace()
IsSpace(c) == c \in {" ", "\t", "\n"}

\* \w of Python's re on a str pattern: Unicode alphanumerics and the underscore
IsWordChar(c) == c \in AsciiWordChars \cup UnicodeAlnum

\* str.lower() of one character; U+0130 lowers to "i" followed by U+0307
LowerChar(c) ==
    IF \E i \in 1..26 : UpperAscii[i] = c
    THEN <<LowerAscii[CHOOSE i \in 1..26 : UpperAscii[i] = c]>>
    ELSE IF c = "U+00C9" THEN <<"U+00E9">>
    ELSE IF c = "U+0130" THEN <<"i", "U+0307">>
    ELSE <<c>>

\* str.lower()
RECURSIVE StrLower(_)
StrLower(s) == IF s = <<>> THEN <<>> ELSE LowerChar(Head(s)) \o StrLower(Tail(s))

RECURSIVE LStrip(_)
LStrip(s) == IF s # <<>> /\ IsSpace(Head(s)) THEN LStrip(Tail(s)) ELSE s

RECURSIVE RStrip(_)
RStrip(s) ==
    IF s # <<>> /\ IsSpace(s[Len(s)]) THEN RStrip(SubSeq(s, 1, Len(s) - 1)) ELSE s

\* str.strip()
StrStrip(s) == RStrip(LStrip(s))

\* re.sub(r"\W+", "_", s): inRun says the previous character was part of the
\* run of non-word characters being replaced
RECURSIVE SubRuns(_, _)
SubRuns(s, inRun) ==
    IF s = <<>> THEN <<>>
    ELSE IF IsWordChar(Head(s)) THEN <<Head(s)>> \o SubRuns(Tail(s), FALSE)
    ELSE (IF inRun THEN <<>> ELSE <<"_">>) \o SubRuns(Tail(s), TRUE)

ReplaceNonWord(s) == SubRuns(s, FALSE)

---------------------------------------------------------------------------
(* DataFrames: nrows rows and a sequence of columns [name, dtype, cells] *)

Col(name, dtype, cells) == [name |-> name, dtype |-> dtype, cells |-> cells]
Frame(nrows, cols) == [nrows |-> nrows, cols |-> cols]
ColumnNames(f) == [i \in DOMAIN f.cols |-> f.cols[i].name]
HasColumn(f, name) == \E i \in DOMAIN f.cols : f.cols[i].name = name
ColumnIndex(f, name) == CHOOSE i \in DOMAIN f.cols : f.cols[i].name = name
GetColumn(f, name) == f.cols[ColumnIndex(f, name)]
IsNumericDtype(d) == d \in {"int64", "float64"}

\* df[name] = cells: replaces the column of that name, or appends a new one
SetColumn(f, name, dtype, cells) ==
    IF HasColumn(f, name)
    THEN [f EXCEPT !.cols[ColumnIndex(f, name)] = Col(name, dtype, cells)]
    ELSE [f EXCEPT !.cols = Append(f.cols, Col(name, dtype, cells))]

\* An object handle inside a call: "alias" is the caller's own object, "fresh"
\* a new object the caller has no reference to.
DataFrameAlias(f) == [obj |-> "alias", frame |-> f]
\* df.copy()
DataFrameCopy(f) == [obj |-> "fresh", frame |-> f]
\* the caller's object once a call that ended with local handle h returns
ArgAfter(f, h) == IF h.obj = "alias" THEN h.frame ELSE f

---------------------------------------------------------------------------
(* clean.py *)

\* squares of the deviations from the mean, scaled: sum of (n*x - S)^2
SumSqDev(xs, n, S) ==
    SumSeq([i \in DOMAIN xs |-> (n * xs[i] - S) * (n * xs[i] - S)])

ZscoreDdof == 0

\* (df[col] - mean) / std for one cell, mean and std(ddof) taken over the
\* non-missing values xs: NaN, or dev * sqrt(dof / ssq) kept unevaluated
ZCell(c, xs, ddof) ==
    LET n == Len(xs)
        S == SumSeq(xs)
        ssq == SumSqDev(xs, n, S)
    IN  IF IsNA(c) \/ n = 0 \/ n - ddof <= 0 \/ ssq = 0 THEN NA
        ELSE [t |-> "zscore", dev |-> n * c.n - S, ssq |-> ssq, dof |-> n - ddof]


AbsGreater(c, z2) ==
    IF IsNA(c) THEN FALSE
    ELSE IF z2 < 0 THEN TRUE
    ELSE 4 * c.dev * c.dev * c.dof > z2 * z2 * c.ssq

ZName(col) == col \o <<"_", "z">>
OutlierName(col) == col \o <<"_", "i", "s", "_", "o", "u", "t", "l", "i", "e", "r">>

\* the body of add_zscore_outlier_flag after its first statement, on handle h
ZscoreBody(h, col, z2) ==
    LET cells == GetColumn(h.frame, col).cells
        xs == DropNA(cells)
        zs == [i \in DOMAIN cells |-> ZCell(cells[i], xs, ZscoreDdof)]
        f1 == SetColumn(h.frame, ZName(col), "float64", zs)
        zcol == GetColumn(f1, ZName(col)).cells
        flags == [i \in DOMAIN zcol |-> PyBool(AbsGreater(zcol[i], z2))]
        f2 == SetColumn(f1, OutlierName(col), "bool", flags)
    IN  [h EXCEPT !.frame = f2]

add_zscore_outlier_flag_inplace(f, col, z2) ==
    IF ~HasColumn(f, col) THEN [status |-> "KeyError", arg |-> f]
    ELSE LET h == ZscoreBody(DataFrameAlias(f), col, z2)
         IN  [status |-> "ok", value |-> h.frame, arg |-> ArgAfter(f, h)]

\* add_zscore_outlier_flag(df, col, z): status, returned frame, and the caller's
\* frame as the call leaves it
add_zscore_outlier_flag(f, col, z2) ==
    IF ~HasColumn(f, col) THEN [status |-> "KeyError", arg |-> f]
    ELSE LET h == ZscoreBody(DataFrameCopy(f), col, z2)
         IN  [status |-> "ok", value |-> h.frame, arg |-> ArgAfter(f, h)]


fix_col_names_no_strip(f) ==
    LET h == DataFrameCopy(f)
        renamed == [i \in DOMAIN h.frame.cols |->
                      [h.frame.cols[i] EXCEPT
                         !.name = StrLower(ReplaceNonWord(@))]]
    IN  [status |-> "ok", value |-> [h.frame EXCEPT !.cols = renamed],
         arg |-> f]

\* fix_col_names(df)
fix_col_names(f) ==
    LET h == DataFrameCopy(f)
        renamed == [i \in DOMAIN h.frame.cols |->
                      [h.frame.cols[i] EXCEPT
                         !.name = StrLower(ReplaceNonWord(StrStrip(@)))]]
        h2 == [h EXCEPT !.frame.cols = renamed]
    IN  [status |-> "ok", value |-> h2.frame, arg |-> ArgAfter(f, h2)]

\* the per-column copy of null_percentage after blank strings are re-classified
BlankToNA(cells) ==
    [i \in DOMAIN cells |->
        IF IsStr(cells[i])
        THEN (IF StrStrip(cells[i].s) = <<>> THEN NA ELSE Str(StrStrip(cells[i].s)))
        ELSE cells[i]]

\* Series.isna().sum()
CountNA(cells) == Cardinality({i \in DOMAIN cells : IsNA(cells[i])})

null_percentage_always_blank(f, include_empty_strings) ==
    IF f.nrows = 0 \/ f.cols = <<>>
    THEN [status |-> "ok", arg |-> f,
          value |-> [i \in DOMAIN f.cols |->
                       [key |-> f.cols[i].name, pct |-> PyFloat(0, 1)]]]
    ELSE [status |-> "ok", arg |-> f,
          value |-> [i \in DOMAIN f.cols |->
                       [key |-> f.cols[i].name,
                        pct |-> PyFloat(100 * CountNA(BlankToNA(f.cols[i].cells)),
                                        f.nrows)]]]

\* null_percentage(df, include_empty_strings=...): the dict as its items in
\* insertion order
null_percentage(f, include_empty_strings) ==
    IF f.nrows = 0 \/ f.cols = <<>>
    THEN [status |-> "ok", arg |-> f,
          value |-> [i \in DOMAIN f.cols |->
                       [key |-> f.cols[i].name, pct |-> PyFloat(0, 1)]]]
    ELSE LET total == f.nrows
             pct(cells) ==
                 LET ser == IF include_empty_strings THEN BlankToNA(cells) ELSE cells
                 IN  PyFloat(100 * CountNA(ser), total)
         IN  [status |-> "ok", arg |-> f,
              value |-> [i \in DOMAIN f.cols |->
                           [key |-> f.cols[i].name, pct |-> pct(f.cols[i].cells)]]]

---------------------------------------------------------------------------
(* Exact comparisons standing for the floating-point arithmetic of plot.py *)

Max(a, b) == IF a >= b THEN a ELSE b

RECURSIVE Gcd(_, _)
Gcd(a, b) == IF b = 0 THEN a ELSE Gcd(b, a % b)

\* p/q >= r/s for positive integers, by continued fractions (no products)
RECURSIVE GeqFrac(_, _, _, _)
GeqFrac(p, q, r, s) ==
    LET i == p \div q
        j == r \div s
    IN  IF i # j THEN i > j
        ELSE IF r % s = 0 THEN TRUE
        ELSE IF p % q = 0 THEN FALSE
        ELSE GeqFrac(s, r % s, q, p % q)

\* (a/b)^3 >= m for integers a >= 0, b > 0, m > 0
CubeGeq(a, b, m) ==
    LET g == Gcd(a, b)
        x == a \div g
        y == b \div g
        fl == x \div y
    IN  IF fl * fl * fl >= m THEN TRUE
        ELSE IF (fl + 1) * (fl + 1) * (fl + 1) <= m THEN FALSE
        ELSE GeqFrac(x * x, y * y, m * y, x)

\* the least k >= from with P(k)
RECURSIVE LeastFrom(_, _)
LeastFrom(P(_), from) == IF P(from) THEN from ELSE LeastFrom(P, from + 1)

\* math.ceil(math.sqrt(n))
CeilSqrt(n) == LET P(k) == k * k >= n IN LeastFrom(P, 0)

RECURSIVE Pow2(_)
Pow2(k) == IF k = 0 THEN 1 ELSE 2 * Pow2(k - 1)

\* math.ceil(math.log2(n))
CeilLog2(n) == LET P(k) == Pow2(k) >= n IN LeastFrom(P, 0)

\* math.ceil(1 + math.log2(n)), n >= 1
CeilSturges(n) == LET P(k) == Pow2(k) >= n IN 1 + LeastFrom(P, 0)

HistDdof == 1

\* math.ceil(data_range / scott_width), scott_width = 3.5 * std / n ** (1/3) with
\* std = clean.std(ddof): the least k with (7k/2)^2 * var >= range^2 * n^(2/3),
\* var = ssq / (n^2 * (n - ddof)) and ssq the sum of (n*x - S)^2
CeilScott(xs, range, ddof) ==
    LET n == Len(xs)
        ssq == SumSqDev(xs, n, SumSeq(xs))
        g == Gcd(ssq, n * n * (n - ddof))
        vnum == ssq \div g
        vden == (n * n * (n - ddof)) \div g
        P(k) == CubeGeq(49 * k * k * vnum, 4 * range * range * vden, n * n)
    IN  LeastFrom(P, 0)

\* math.ceil(data_range / fd_width), fd_width = 2 * iqr / n ** (1/3), iqr = iqr4/4:
\* the least k with (k * iqr4 / (2 * range))^3 >= n
CeilFreedmanDiaconis(n, range, iqr4) ==
    LET P(k) == CubeGeq(k * iqr4, 2 * range, n) IN LeastFrom(P, 0)

\* the standard normal cdf at the integers -4..4, in units of 10^-5
NormalCdfE5 == [v \in -4..4 |->
    CASE v = -4 -> 3 [] v = -3 -> 135 [] v = -2 -> 2275 [] v = -1 -> 15866
      [] v = 0 -> 50000 [] v = 1 -> 84134 [] v = 2 -> 97725 [] v = 3 -> 99865
      [] v = 4 -> 99997]

\* NormalDist().inv_cdf(num/den), kept unevaluated
Probit(num, den) == [t |-> "probit", num |-> num, den |-> den]

\* inv_cdf(q.num/q.den) < v for an integer v (the probabilities used are never
\* within 10^-5 of 0, of 1 or of a tabulated value other than 1/2)
ProbitLess(q, v) ==
    IF v > 4 THEN TRUE
    ELSE IF v < -4 THEN FALSE
    ELSE q.num * 100000 < NormalCdfE5[v] * q.den

\* min and max of floats that are integers or unevaluated probits
FloatMin(a, b) ==
    IF a.t = "probit" /\ b.t = "num" THEN (IF ProbitLess(a, b.n) THEN a ELSE b)
    ELSE IF a.n <= b.n THEN a ELSE b
FloatMax(a, b) ==
    IF a.t = "probit" /\ b.t = "num" THEN (IF ProbitLess(a, b.n) THEN b ELSE a)
    ELSE IF a.n >= b.n THEN a ELSE b

---------------------------------------------------------------------------
(* plot.py: Axes handles *)

\* a matplotlib Axes nothing was drawn on
BlankAxes == [artists |-> <<>>, title |-> PyNone, xlabel |-> PyNone,
              ylabel |-> PyNone, ylim |-> PyNone, legend |-> FALSE,
              ticks |-> PyNone]

AxesAlias(a) == [obj |-> "alias", axes |-> a]
\* plt.subplots()
NewAxes == [obj |-> "fresh", axes |-> BlankAxes]
\* "if ax is None: _, ax = plt.subplots()"; axArg is PyNone or the caller's Axes
AxesOrNew(axArg) == IF axArg = PyNone THEN NewAxes ELSE AxesAlias(axArg)
AddArtist(h, artist) == [h EXCEPT !.axes.artists = Append(@, artist)]
\* the caller's Axes once a call that drew on handle h returns
AxAfter(axArg, h) == IF h.obj = "alias" THEN h.axes ELSE axArg

Raise(exc, axArg) == [status |-> exc, ax |-> axArg]
Return(h, axArg) ==
    [status |-> "ok", value |-> [obj |-> h.obj, axes |-> h.axes],
     ax |-> AxAfter(axArg, h)]

---------------------------------------------------------------------------
(* plot.py: qq_plot, histogram_plot, cdf_plot, histogram_bin_counts *)

\* qq_plot with the title set before the input is validated
qq_plot_late_check(s, axArg, marker) ==
    LET clean == DropNA(s.values)
        h0 == AxesOrNew(axArg)
        h1 == [h0 EXCEPT !.axes.title = PyStr(<<"Normal Q-Q Plot">>)]
    IN  IF clean = <<>> THEN Raise("ValueError", AxAfter(axArg, h1))
        ELSE Return(h1, axArg)

qq_plot(s, axArg, marker) ==
    LET clean == DropNA(s.values)
    IN  IF clean = <<>> THEN Raise("ValueError", axArg)
        ELSE
          LET data_quantiles == Sort(clean)
              n == Len(data_quantiles)
              theoretical_quantiles == [i \in 1..n |-> Probit(2 * i - 1, 2 * n)]
              h0 == AxesOrNew(axArg)
              h1 == AddArtist(h0, [kind |-> "scatter", x |-> theoretical_quantiles,
                                   y |-> data_quantiles, marker |-> marker,
                                   label |-> PyStr(<<"Data">>)])
              min_bound == FloatMin(theoretical_quantiles[1], Num(data_quantiles[1]))
              max_bound == FloatMax(theoretical_quantiles[n], Num(data_quantiles[n]))
              h2 == AddArtist(h1, [kind |-> "line", x |-> <<min_bound, max_bound>>,
                                   y |-> <<min_bound, max_bound>>,
                                   label |-> PyStr(<<"Ideal normal">>)])
              h3 == [h2 EXCEPT !.axes.title = PyStr(<<"Normal Q-Q Plot">>),
                               !.axes.xlabel = PyStr(<<"Theoretical Quantiles">>),
                               !.axes.ylabel = PyStr(<<"Sample Quantiles">>),
                               !.axes.legend = TRUE]
          IN  Return(h3, axArg)

\* int() of the str literals that parse
IntLiterals == {<<"5">>, <<"0">>}
IntLiteralValue(s) == IF s = <<"5">> THEN 5 ELSE 0

\* int(bins): the integer, or the exception raised
PyIntOf(bins) ==
    CASE bins.t = "int" -> [status |-> "ok", value |-> bins.n]
      [] bins.t = "bool" -> [status |-> "ok", value |-> IF bins.b THEN 1 ELSE 0]
      [] bins.t = "float" ->
            [status |-> "ok",
             value |-> IF bins.num >= 0 THEN bins.num \div bins.den
                       ELSE -((-bins.num) \div bins.den)]
      [] bins.t = "str" ->
            IF bins.s \in IntLiterals
            THEN [status |-> "ok", value |-> IntLiteralValue(bins.s)]
            ELSE [status |-> "ValueError"]
      [] bins.t = "none" -> [status |-> "TypeError"]

histogram_plot(s, bins, axArg, density) ==
    LET clean == DropNA(s.values)
        converted == PyIntOf(bins)
    IN  IF clean = <<>> THEN Raise("ValueError", axArg)
        ELSE IF converted.status \in {"TypeError", "ValueError"}
        THEN Raise("TypeError", axArg)
        ELSE IF converted.value < 1 THEN Raise("ValueError", axArg)
        ELSE
          LET bin_count == converted.value
              h0 == AxesOrNew(axArg)
              h1 == AddArtist(h0, [kind |-> "hist", x |-> clean, bins |-> bin_count,
                                   density |-> density])
              h2 == [h1 EXCEPT !.axes.title = PyStr(<<"Histogram">>),
                               !.axes.xlabel = PyStr(<<"Value">>),
                               !.axes.ylabel = IF density THEN PyStr(<<"Density">>)
                                               ELSE PyStr(<<"Frequency">>)]
          IN  Return(h2, axArg)

\* a str or None is truthy when it is a non-empty str
Truthy(v) == v.t = "str" /\ v.s # <<>>

DefaultLabel == PyStr(<<"Empirical CDF">>)

cdf_plot(s, axArg, label) ==
    LET clean == DropNA(s.values)
    IN  IF clean = <<>> THEN Raise("ValueError", axArg)
        ELSE
          LET values == Sort(clean)
              n == Len(values)
              cumulative == [i \in 1..n |-> PyFloat(i, n)]
              label_text == label
              x_label == IF Truthy(s.name) THEN s.name ELSE PyStr(<<"Value">>)
              h0 == AxesOrNew(axArg)
              h1 == AddArtist(h0, [kind |-> "step", x |-> values, y |-> cumulative,
                                   where |-> "post", label |-> label_text])
              h2 == [h1 EXCEPT !.axes.ylim = <<PyInt(0), PyFloat(105, 100)>>,
                               !.axes.title = label_text,
                               !.axes.xlabel = x_label,
                               !.axes.ylabel = PyStr(<<"Cumulative Probability">>),
                               !.axes.legend = TRUE]
          IN  Return(h2, axArg)

\* _positive(value), given math.ceil(value)
Positive(ceiling) == Max(1, ceiling)

histogram_bin_counts(s) ==
    LET clean == DropNA(s.values)
        n == Len(clean)
    IN  IF n = 0 THEN [status |-> "ValueError"]
        ELSE
          LET sorted == Sort(clean)
              counts == [square_root |-> Positive(CeilSqrt(n)),
                         sturges |-> Positive(CeilSturges(n))]
              data_range == sorted[n] - sorted[1]
          IN  IF data_range = 0
              THEN [status |-> "ok",
                    value |-> counts @@ [scott |-> 1, freedman_diaconis |-> 1]]
              ELSE
                LET ssq == SumSqDev(clean, n, SumSeq(clean))
                    scott == IF ssq > 0 /\ n - HistDdof > 0
                             THEN Positive(CeilScott(clean, data_range, HistDdof))
                             ELSE 1
                    iqr4 == Quantile4(clean, 3) - Quantile4(clean, 1)
                    fd == IF iqr4 > 0
                          THEN Positive(CeilFreedmanDiaconis(n, data_range, iqr4))
                          ELSE 1
                IN  [status |-> "ok",
                     value |-> counts @@ [scott |-> scott, freedman_diaconis |-> fd]]

---------------------------------------------------------------------------
(* plot.py: box_plot *)

\* a Python list
PyList(v) == [t |-> "list", v |-> v]

InSeq(x, seq) == \E i \in DOMAIN seq : seq[i] = x

\* df.select_dtypes(include=[np.number]).columns.tolist()
NumericColumnNames(f) ==
    LET numeric(c) == IsNumericDtype(c.dtype)
        cols == SelectSeq(f.cols, numeric)
    IN  [i \in DOMAIN cols |-> cols[i].name]

\* the order groupby sorts str keys in
SegKeyOrder == <<<<"u">>, <<"v">>>>
KeyRank(c) ==
    IF c.t = "num" THEN c.n
    ELSE CHOOSE i \in DOMAIN SegKeyOrder : SegKeyOrder[i] = c.s

\* the keys of df.groupby(col): the distinct non-missing values, sorted
RECURSIVE SortKeys(_)
SortKeys(keys) ==
    IF keys = {} THEN <<>>
    ELSE LET k == CHOOSE x \in keys : \A y \in keys : KeyRank(x) <= KeyRank(y)
         IN  <<k>> \o SortKeys(keys \ {k})
GroupKeys(cells) == SortKeys({cells[i] : i \in {j \in DOMAIN cells : ~IsNA(cells[j])}})

DigitStr == <<"1", "2", "3", "4", "5", "6", "7", "8", "9">>
\* str(label) of a group key of a column of the given dtype
LabelStr(key, dtype) ==
    IF key.t = "str" THEN key.s
    ELSE LET d == IF key.n = 0 THEN "0" ELSE DigitStr[key.n]
         IN  IF dtype = "int64" THEN <<d>> ELSE <<d, ".", "0">>

\* group[numeric_cols].to_numpy().ravel() for the rows in rows (ascending) and
\* the columns in names, row by row
RECURSIVE Ravel(_, _, _)
Ravel(f, names, rows) ==
    IF rows = <<>> THEN <<>>
    ELSE [j \in DOMAIN names |-> GetColumn(f, names[j]).cells[Head(rows)]]
            \o Ravel(f, names, Tail(rows))

\* the rows of f, ascending, whose cell in column col is key
RowsOfKey(f, col, key) ==
    LET isKey(i) == GetColumn(f, col).cells[i] = key
    IN  SelectSeq([i \in 1..f.nrows |-> i], isKey)

\* the loop over df.groupby(segment_on) without its "continue"
SegmentGroupsKeepEmpty(f, numeric_cols, seg, keys) ==
    [i \in DOMAIN keys |->
        [label |-> LabelStr(keys[i], GetColumn(f, seg).dtype),
         data |-> DropNA(Ravel(f, numeric_cols, RowsOfKey(f, seg, keys[i])))]]

\* the loop over df.groupby(segment_on): the sequence of [label, data]
RECURSIVE SegmentGroups(_, _, _, _)
SegmentGroups(f, numeric_cols, seg, keys) ==
    IF keys = <<>> THEN <<>>
    ELSE LET flattened == DropNA(Ravel(f, numeric_cols, RowsOfKey(f, seg, Head(keys))))
             rest == SegmentGroups(f, numeric_cols, seg, Tail(keys))
         IN  IF flattened = <<>> THEN rest
             ELSE <<[label |-> LabelStr(Head(keys), GetColumn(f, seg).dtype),
                     data |-> flattened]>> \o rest

\* the loop over numeric_cols: the sequence of [label, data]
RECURSIVE ColumnGroups(_, _)
ColumnGroups(f, numeric_cols) ==
    IF numeric_cols = <<>> THEN <<>>
    ELSE LET column_data == DropNA(GetColumn(f, Head(numeric_cols)).cells)
             rest == ColumnGroups(f, Tail(numeric_cols))
         IN  IF column_data = <<>> THEN rest
             ELSE <<[label |-> Head(numeric_cols), data |-> column_data]>> \o rest

BoxTitle(segment_on) ==
    IF Truthy(segment_on) THEN PyStr(<<"Box Plot", " by ">> \o segment_on.s)
    ELSE PyStr(<<"Box Plot">>)

box_plot(f, value_columns, segment_on, axArg, vertical) ==
    LET all_numeric == NumericColumnNames(f)
        hasCol(c) == HasColumn(f, c)
        lacksCol(c) == ~HasColumn(f, c)
        isNumeric(c) == InSeq(c, all_numeric)
        missing == IF value_columns = PyNone THEN <<>>
                   ELSE SelectSeq(value_columns.v, lacksCol)
        selected == IF value_columns = PyNone THEN all_numeric
                    ELSE SelectSeq(value_columns.v, isNumeric)
        notSegment(c) == c # segment_on.s
        numeric_cols == IF Truthy(segment_on) THEN SelectSeq(selected, notSegment)
                        ELSE selected
    IN  IF missing # <<>> THEN Raise("ValueError", axArg)
        ELSE IF Truthy(segment_on) /\ ~HasColumn(f, segment_on.s)
        THEN Raise("ValueError", axArg)
        ELSE IF numeric_cols = <<>> THEN Raise("ValueError", axArg)
        ELSE
          LET groups == IF Truthy(segment_on)
                        THEN SegmentGroups(f, numeric_cols, segment_on.s,
                                 GroupKeys(GetColumn(f, segment_on.s).cells))
                        ELSE ColumnGroups(f, numeric_cols)
              data == [i \in DOMAIN groups |-> groups[i].data]
              labels == [i \in DOMAIN groups |-> groups[i].label]
          IN  IF data = <<>> THEN Raise("ValueError", axArg)
              ELSE
                LET h0 == AxesOrNew(axArg)
                    h1 == AddArtist(h0, [kind |-> "boxplot", data |-> data,
                                         orientation |-> IF vertical THEN "vertical"
                                                         ELSE "horizontal"])
                    h2 == [h1 EXCEPT
                             !.axes.ticks = [axis |-> IF vertical THEN "x" ELSE "y",
                                             positions |-> [i \in 1..Len(labels) |-> i],
                                             labels |-> labels],
                             !.axes.title = BoxTitle(segment_on),
                             !.axes.ylabel = PyStr(<<"Value">>)]
                IN  Return(h2, axArg)

---------------------------------------------------------------------------
(* Objects of the caller *)

EmptyFrame == [nrows |-> 0, cols |-> <<>>]
EmptySeries == [name |-> PyNone, values |-> <<>>]
NoCall == [op |-> "none"]
NoRet == [status |-> "none"]

\* tests/test_stats.py: pd.Series([1, 2, 3, 4, 5, 6])
TestIqrSeries == [name |-> PyNone,
                  values |-> <<Num(1), Num(2), Num(3), Num(4), Num(5), Num(6)>>]

StatSeries ==
    {[name |-> PyNone, values |-> v] : v \in SeqsUpTo(NumCells \cup {NA}, MaxLen)}
        \cup {TestIqrSeries}

\* multipliers k = k2/2: 0, 1, 1.5 (the default), 2
IqrK2 == {0, 2, 3, 4}

InitStats ==
    /\ series \in StatSeries
    /\ df = EmptyFrame
    /\ ax = PyNone
    /\ call = NoCall
    /\ ret = NoRet

CallIqrBounds ==
    \E k2 \in IqrK2 :
        /\ call' = [op |-> "iqr_bounds", k2 |-> k2]
        /\ ret' = [status |-> "ok", value |-> iqr_bounds(series, k2)]
        /\ UNCHANGED <<df, series, ax>>

NextStats == CallIqrBounds

SpecStats == InitStats /\ [][NextStats]_vars


---------------------------------------------------------------------------
(* Callers of clean.py *)

\* the dtype pandas infers for a column built from these cells (NaN for missing)
DtypeOf(cells) ==
    IF \E i \in DOMAIN cells : IsStr(cells[i]) THEN "object"
    ELSE IF cells = <<>> \/ \E i \in DOMAIN cells : IsNA(cells[i]) THEN "float64"
    ELSE "int64"

NewCol(name, cells) == Col(name, DtypeOf(cells), cells)
Const(n, c) == [i \in 1..n |-> c]

\* tests/test_clean.py: {"x": [1, 2, 3, 20, 4, 5]}
TestZFrame ==
    Frame(6, <<NewCol(<<"x">>, <<Num(1), Num(2), Num(3), Num(20), Num(4), Num(5)>>)>>)
\* tests/test_clean.py: {" Amount ": [1], "User-Id": [2], "Total$": [3]}
TestNameFrame ==
    Frame(1, <<NewCol(<<" ", "A", "m", "o", "u", "n", "t", " ">>, <<Num(1)>>),
               NewCol(<<"U", "s", "e", "r", "-", "I", "d">>, <<Num(2)>>),
               NewCol(<<"T", "o", "t", "a", "l", "$">>, <<Num(3)>>)>>)
\* tests/test_clean.py: {"a": [1, None, 3], "b": [None, None, 5]}
TestNullFrame ==
    Frame(3, <<NewCol(<<"a">>, <<Num(1), NA, Num(3)>>),
               NewCol(<<"b">>, <<NA, NA, Num(5)>>)>>)
\* tests/test_clean.py: pd.DataFrame(columns=["a", "b"])
TestEmptyFrame ==
    Frame(0, <<Col(<<"a">>, "object", <<>>), Col(<<"b">>, "object", <<>>)>>)
\* tests/test_clean.py: {"a": ["", "value", "  "]}
TestBlankFrame ==
    Frame(3, <<NewCol(<<"a">>, <<Str(<<>>), Str(<<"v", "a", "l", "u", "e">>),
                                 Str(<<" ", " ">>)>>)>>)

\* frames with a numeric column x, alone or beside a column y
ZFrames ==
    {Frame(Len(v), <<NewCol(<<"x">>, v)>>) :
        v \in SeqsUpTo(NumCells \cup {NA}, MaxLen)}
    \cup {Frame(Len(v), <<NewCol(<<"y">>, Const(Len(v), Num(7))), NewCol(<<"x">>, v)>>) :
        v \in SeqsUpTo(NumCells \cup {NA}, MaxLen)}

NameAlphabet == {" ", "-", "A", "a", "_", "1", "U+00E9", "U+0130"}
NameFrames ==
    {Frame(1, <<NewCol(name, <<Num(1)>>)>>) : name \in SeqsUpTo(NameAlphabet, MaxNameLen)}

NullCells == {NA, Num(1), Str(<<>>), Str(<<" ">>), Str(<<"v">>), Str(<<" ", "v", " ">>)}
NullFrames ==
    {Frame(Len(v), <<NewCol(<<"a">>, v)>>) : v \in SeqsUpTo(NullCells, MaxLen)}

CleanFrames ==
    ZFrames \cup NameFrames \cup NullFrames
        \cup {TestZFrame, TestNameFrame, TestNullFrame, TestEmptyFrame, TestBlankFrame}

\* thresholds z = z2/2: -1, 1, 2, 3 (the default)
ZThresholds == {-2, 2, 4, 6}
\* the columns asked for: x, and q, which no frame has
ZColumns == {<<"x">>, <<"q">>}

InitClean ==
    /\ df \in CleanFrames
    /\ series = EmptySeries
    /\ ax = PyNone
    /\ call = NoCall
    /\ ret = NoRet

\* The frames a caller has at hand: its own, and the one the last call returned.
ReturnedFrame ==
    IF call.op \in {"fix_col_names", "add_zscore_outlier_flag"} /\ ret.status = "ok"
    THEN {ret.value} ELSE {}

UniqueNames(f) ==
    \A i, j \in DOMAIN f.cols : f.cols[i].name = f.cols[j].name => i = j

\* the call made on frame f, taken from the caller's df or from the last result
CallOn(op, f, fromRet) ==
    [op |-> op, arg |-> f, fromRet |-> fromRet,
     prev |-> IF fromRet THEN call.op ELSE "none"]

CallAddZscore ==
    \E fromRet \in BOOLEAN, col \in ZColumns, z2 \in ZThresholds :
      \E f \in (IF fromRet THEN ReturnedFrame ELSE {df}) :
        /\ HasColumn(f, col) => IsNumericDtype(GetColumn(f, col).dtype)
        /\ LET r == add_zscore_outlier_flag(f, col, z2)
           IN  /\ call' = CallOn("add_zscore_outlier_flag", f, fromRet)
                            @@ [col |-> col, z2 |-> z2]
               /\ ret' = IF r.status = "ok"
                         THEN [status |-> "ok", value |-> r.value]
                         ELSE [status |-> r.status]
               /\ df' = IF fromRet THEN df ELSE r.arg
        /\ UNCHANGED <<series, ax>>

CallFixColNames ==
    \E fromRet \in BOOLEAN :
      \E f \in (IF fromRet THEN ReturnedFrame ELSE {df}) :
        /\ LET r == fix_col_names(f)
           IN  /\ call' = CallOn("fix_col_names", f, fromRet)
               /\ ret' = [status |-> "ok", value |-> r.value]
               /\ df' = IF fromRet THEN df ELSE r.arg
        /\ UNCHANGED <<series, ax>>

CallNullPercentage ==
    \E fromRet \in BOOLEAN, include_empty_strings \in BOOLEAN :
      \E f \in (IF fromRet THEN ReturnedFrame ELSE {df}) :
        /\ UniqueNames(f)
        /\ LET r == null_percentage(f, include_empty_strings)
           IN  /\ call' = CallOn("null_percentage", f, fromRet)
                            @@ [include_empty_strings |-> include_empty_strings]
               /\ ret' = [status |-> "ok", value |-> r.value]
               /\ df' = IF fromRet THEN df ELSE r.arg
        /\ UNCHANGED <<series, ax>>

NextClean ==
    \/ CallAddZscore
    \/ CallFixColNames
    \/ CallNullPercentage

SpecClean == InitClean /\ [][NextClean]_vars

---------------------------------------------------------------------------
(* Callers of plot.py *)

Named(name, vals) == [name |-> PyStr(<<name>>), values |-> [i \in DOMAIN vals |-> Num(vals[i])]]
Unnamed(vals) == [name |-> PyNone, values |-> [i \in DOMAIN vals |-> Num(vals[i])]]

\* tests/test_plot.py: the series the tests plot
TestCdfSeries == Named("numbers", <<3, 1, 4, 1>>)
TestLabelSeries == Named("ignored", <<1, 2, 3>>)
TestDegenerateSeries == Unnamed(<<5, 5, 5>>)
TestHistSeries == Unnamed([i \in 1..10 |-> i - 1])
TestBinCountSeries == Unnamed([i \in 1..100 |-> i])
TestQqSeries == Unnamed(<<1, 2, 3, 4, 5>>)

TestSeries ==
    {TestCdfSeries, TestLabelSeries, TestDegenerateSeries, TestHistSeries,
     TestBinCountSeries, TestQqSeries}
\* a series with a missing value in front
WithGap(t) == [t EXCEPT !.values = <<NA>> \o @]
\* a series whose quartiles coincide while its range is positive
TiedSeries == Unnamed(<<0, 0, 0, 0, 0, 4>>)

PlotSeries ==
    {[name |-> PyNone, values |-> v] : v \in SeqsUpTo(NumCells \cup {NA}, MaxLen)}
        \cup {[name |-> PyStr(<<"numbers">>), values |-> v] :
                 v \in SeqsUpTo({NA, Num(1)}, MaxLen)}
        \cup TestSeries \cup {WithGap(t) : t \in TestSeries} \cup {TiedSeries}

\* frames with numeric columns a and b, a str column g and a numeric column k
BoxFrames ==
    {Frame(MaxRows, <<NewCol(<<"a">>, a), Col(<<"b">>, "float64", b),
                      Col(<<"g">>, "object", g)>>) :
        a \in [1..MaxRows -> {NA, Num(1), Num(2)}],
        b \in {Const(MaxRows, NA), Const(MaxRows, Num(3))},
        g \in [1..MaxRows -> {NA, Str(<<"u">>), Str(<<"v">>)}]}
    \cup {Frame(MaxRows, <<Col(<<"g">>, "object", g)>>) :
        g \in [1..MaxRows -> {NA, Str(<<"u">>), Str(<<"v">>)}]}
    \cup {Frame(MaxRows, <<NewCol(<<"a">>, a), NewCol(<<"k">>, k)>>) :
        a \in [1..MaxRows -> {NA, Num(1)}], k \in [1..MaxRows -> {Num(1), Num(2)}]}
    \cup {Frame(0, <<Col(<<"a">>, "float64", <<>>), Col(<<"g">>, "object", <<>>)>>)}

\* the bins passed: integers, floats, strs, None, a bool
BinsArgs ==
    {PyInt(-1), PyInt(0), PyInt(1), PyInt(5), PyFloat(5, 2), PyFloat(1, 2),
     PyStr(<<"many">>), PyStr(<<"5">>), PyNone, PyBool(TRUE)}
\* the label passed to cdf_plot, when one is
LabelArgs == {PyStr(<<"Custom">>), PyNone}
ValueColumnArgs ==
    {PyNone, PyList(<<<<"a">>>>), PyList(<<<<"b">>, <<"a">>>>), PyList(<<<<"g">>>>),
     PyList(<<<<"a">>, <<"zz">>>>), PyList(<<<<"b">>>>)}
SegmentArgs == {PyNone, PyStr(<<"g">>), PyStr(<<"k">>), PyStr(<<"zz">>)}

\* the calls of histogram_plot: every bins on an Axes of the caller, and a valid
\* and an invalid one with density and without an Axes
HistogramCalls ==
    [bins : BinsArgs, density : {FALSE}, useAx : {TRUE}]
        \cup [bins : {PyInt(5), PyInt(0)}, density : BOOLEAN, useAx : BOOLEAN]
\* the calls of box_plot: every selection and segmentation horizontally on an
\* Axes of the caller, and some vertically and without an Axes
BoxCalls ==
    [value_columns : ValueColumnArgs, segment_on : SegmentArgs,
     vertical : {FALSE}, useAx : {TRUE}]
        \cup [value_columns : {PyNone}, segment_on : {PyNone, PyStr(<<"g">>)},
              vertical : BOOLEAN, useAx : BOOLEAN]

InitPlot ==
    /\ \/ series \in PlotSeries /\ df = EmptyFrame
       \/ series = EmptySeries /\ df \in BoxFrames
    /\ ax = PyNone
    /\ call = NoCall
    /\ ret = NoRet

\* the ax argument: an Axes the caller has just made (plt.subplots()), or None
AxArg(useAx) == IF useAx THEN BlankAxes ELSE PyNone
\* what the caller holds once the call is over
Outcome(r) ==
    IF r.status = "ok" THEN [status |-> "ok", value |-> r.value]
    ELSE [status |-> r.status]

CallQqPlot ==
    \E useAx \in BOOLEAN :
        /\ LET r == qq_plot(series, AxArg(useAx), "o")
           IN  /\ call' = [op |-> "qq_plot", useAx |-> useAx]
               /\ ret' = Outcome(r)
               /\ ax' = r.ax
        /\ UNCHANGED <<df, series>>

CallHistogramPlot ==
    \E c \in HistogramCalls :
        /\ LET r == histogram_plot(series, c.bins, AxArg(c.useAx), c.density)
           IN  /\ call' = [op |-> "histogram_plot"] @@ c
               /\ ret' = Outcome(r)
               /\ ax' = r.ax
        /\ UNCHANGED <<df, series>>

CallCdfPlot ==
    \E useAx \in BOOLEAN, passed \in BOOLEAN :
      \E label \in (IF passed THEN LabelArgs ELSE {DefaultLabel}) :
        /\ LET r == cdf_plot(series, AxArg(useAx), label)
           IN  /\ call' = [op |-> "cdf_plot", useAx |-> useAx, passed |-> passed,
                           label |-> label]
               /\ ret' = Outcome(r)
               /\ ax' = r.ax
        /\ UNCHANGED <<df, series>>

CallHistogramBinCounts ==
    /\ call' = [op |-> "histogram_bin_counts"]
    /\ ret' = Outcome(histogram_bin_counts(series))
    /\ ax' = PyNone
    /\ UNCHANGED <<df, series>>

CallBoxPlot ==
    \E c \in BoxCalls :
        /\ LET r == box_plot(df, c.value_columns, c.segment_on, AxArg(c.useAx),
                             c.vertical)
           IN  /\ call' = [op |-> "box_plot"] @@ c
               /\ ret' = Outcome(r)
               /\ ax' = r.ax
        /\ UNCHANGED <<df, series>>

NextPlot ==
    \/ CallQqPlot
    \/ CallHistogramPlot
    \/ CallCdfPlot
    \/ CallHistogramBinCounts
    \/ CallBoxPlot

SpecPlot == InitPlot /\ [][NextPlot]_vars

---------------------------------------------------------------------------
(* Helpers of the properties *)

Range(s) == {s[i] : i \in DOMAIN s}
CountLess(xs, v) == Cardinality({i \in DOMAIN xs : xs[i] < v})
CountLeq(xs, v) == Cardinality({i \in DOMAIN xs : xs[i] <= v})
\* the i-th smallest element (1-based) of a non-empty sequence of numbers
OrderStat(xs, i) ==
    CHOOSE v \in Range(xs) : CountLess(xs, v) < i /\ i <= CountLeq(xs, v)
\* the non-missing numbers of a sequence of cells
NonMissing(cells) ==
    LET idx == {i \in DOMAIN cells : ~IsNA(cells[i])}
        nth(k) == CHOOSE i \in idx : Cardinality({j \in idx : j <= i}) = k
    IN  [k \in 1..Cardinality(idx) |-> cells[nth(k)].n]
\* equality of a float with the rational num/den
IsRat(f, num, den) == f.t = "float" /\ f.num * den = num * f.den
\* four times the p4/4 quantile: interpolation between the floor and the ceil
\* index of p*(n-1) in the sorted values
ExpQuantile4(xs, p4) ==
    LET n == Len(xs)
        h4 == p4 * (n - 1)
        fl == h4 \div 4
        ce == IF h4 % 4 = 0 THEN fl ELSE fl + 1
        a == OrderStat(xs, fl + 1)
        b == OrderStat(xs, ce + 1)
    IN  4 * a + (h4 - 4 * fl) * (b - a)

---------------------------------------------------------------------------
(* C4 *)

C4_IqrBoundsValue ==
    (call.op = "iqr_bounds" /\ NonMissing(series.values) # <<>>) =>
        LET xs == NonMissing(series.values)
            q1 == ExpQuantile4(xs, 1)
            q3 == ExpQuantile4(xs, 3)
        IN  /\ ret.status = "ok"
            /\ IsRat(ret.value[1], 2 * q1 - call.k2 * (q3 - q1), 8)
            /\ IsRat(ret.value[2], 2 * q3 + call.k2 * (q3 - q1), 8)
            /\ (series = TestIqrSeries /\ call.k2 = 3) =>
                   (IsRat(ret.value[1], -3, 2) /\ IsRat(ret.value[2], 17, 2))
\* C4: for a series with at least one non-missing value and any multiplier k,
\* iqr_bounds returns (Q1 - k*IQR, Q3 + k*IQR), IQR = Q3 - Q1, with Q1 and Q3 the
\* 0.25 and 0.75 quantiles of the non-missing values by linear interpolation
\* between the floor and ceil index of p*(n-1); [1,2,3,4,5,6] with k = 1.5 gives
\* (-1.5, 8.5); the series is not modified.
C4_IqrBounds ==
    [](C4_IqrBoundsValue) /\ [][call'.op = "iqr_bounds" => series' = series]_vars
C4_Witness ==
    /\ call.op = "iqr_bounds" /\ call.k2 = 3 /\ series = TestIqrSeries
    /\ ret.status = "ok" /\ IsRat(ret.value[1], -3, 2)

---------------------------------------------------------------------------
(* C2 *)

\* a cell that counts as missing: a missing marker, or, when blank strings are
\* counted, a string made of whitespace only
ExpMissing(c, include_empty_strings) ==
    \/ IsNA(c)
    \/ /\ include_empty_strings
       /\ IsStr(c)
       /\ \A i \in DOMAIN c.s : IsSpace(c.s[i])
ExpMissingCount(cells, include_empty_strings) ==
    Cardinality({i \in DOMAIN cells : ExpMissing(cells[i], include_empty_strings)})

\* C2: for every frame and column, null_percentage returns 100 * (rows whose value
\* is a missing marker or, only when include_empty_strings is true, a string that
\* is empty after trimming) / (row count), between 0 and 100; with the flag false
\* blank strings are not counted; a frame with zero rows gives 0.0 for every column.
C2_NullPercentage ==
    call.op = "null_percentage" =>
        /\ ret.status = "ok"
        /\ DOMAIN ret.value = DOMAIN call.arg.cols
        /\ \A i \in DOMAIN call.arg.cols :
            LET c == call.arg.cols[i]
                p == ret.value[i].pct
            IN  /\ ret.value[i].key = c.name
                /\ p.t = "float" /\ p.den > 0
                /\ 0 <= p.num /\ p.num <= 100 * p.den
                /\ IF call.arg.nrows = 0 THEN p.num = 0
                   ELSE IsRat(p, 100 * ExpMissingCount(c.cells, call.include_empty_strings),
                              call.arg.nrows)
C2_Witness ==
    /\ call.op = "null_percentage" /\ call.arg = TestBlankFrame
    /\ call.include_empty_strings
    /\ IsRat(ret.value[1].pct, 200, 3)

---------------------------------------------------------------------------
(* C3 *)

SumSq(xs) == SumSeq([i \in DOMAIN xs |-> xs[i] * xs[i]])
\* n^2 times the population variance of xs
ExpPopVarN2(xs) == Len(xs) * SumSq(xs) - SumSeq(xs) * SumSeq(xs)

\* |value - mean| / population std > z (z = z2/2) for the cell c of a column whose
\* non-missing values are xs; false where the quotient is undefined
ExpIsOutlier(c, xs, z2) ==
    /\ ~IsNA(c)
    /\ ExpPopVarN2(xs) > 0
    /\ \/ z2 < 0
       \/ 4 * (Len(xs) * c.n - SumSeq(xs)) * (Len(xs) * c.n - SumSeq(xs))
             > z2 * z2 * ExpPopVarN2(xs)

\* the z cell zc is (value - mean) / population std of cell c, NaN when undefined
ExpIsZscore(zc, c, xs) ==
    IF IsNA(c) \/ xs = <<>> \/ ExpPopVarN2(xs) = 0 THEN IsNA(zc)
    ELSE LET d == Len(xs) * c.n - SumSeq(xs)
         IN  /\ zc.t = "zscore"
             /\ (zc.dev > 0) = (d > 0) /\ (zc.dev < 0) = (d < 0)
             /\ zc.dev * zc.dev * zc.dof * ExpPopVarN2(xs) = d * d * zc.ssq

\* the two derived columns of the result hold the z-scores and the flags
C3_DerivedColumns ==
    LET in == call.arg
        out == ret.value
        src == GetColumn(in, call.col).cells
        xs == NonMissing(src)
    IN  /\ out.nrows = in.nrows
        /\ HasColumn(out, ZName(call.col)) /\ HasColumn(out, OutlierName(call.col))
        /\ LET zs == GetColumn(out, ZName(call.col)).cells
               fl == GetColumn(out, OutlierName(call.col)).cells
           IN  /\ Len(zs) = in.nrows /\ Len(fl) = in.nrows
               /\ \A i \in 1..in.nrows :
                    /\ ExpIsZscore(zs[i], src[i], xs)
                    /\ fl[i] = PyBool(ExpIsOutlier(src[i], xs, call.z2))
               /\ ExpPopVarN2(xs) = 0 =>
                    \A i \in 1..in.nrows : IsNA(zs[i]) /\ fl[i] = PyBool(FALSE)

\* the result is the input plus the two derived columns: every column of the
\* input is in the result as it was, and the result has the two columns besides
C3_InputPlusTwo ==
    LET in == call.arg
        out == ret.value
    IN  /\ Len(out.cols) >= Len(in.cols)
        /\ \A i \in DOMAIN in.cols : out.cols[i] = in.cols[i]
        /\ {out.cols[i].name : i \in DOMAIN out.cols}
              = {in.cols[i].name : i \in DOMAIN in.cols}
                    \cup {ZName(call.col), OutlierName(call.col)}

\* the result keeps every input column other than the two derived ones, which it
\* overwrites in place when the input has them and appends otherwise
C3_InputButTwo ==
    LET in == call.arg
        out == ret.value
        derived == {ZName(call.col), OutlierName(call.col)}
        added == Cardinality({d \in derived : ~HasColumn(in, d)})
    IN  /\ Len(out.cols) = Len(in.cols) + added
        /\ \A i \in DOMAIN in.cols :
             /\ out.cols[i].name = in.cols[i].name
             /\ in.cols[i].name \notin derived => out.cols[i] = in.cols[i]
        /\ {out.cols[i].name : i \in DOMAIN out.cols}
              = {in.cols[i].name : i \in DOMAIN in.cols} \cup derived

C3_IsCall == call.op = "add_zscore_outlier_flag" /\ HasColumn(call.arg, call.col)

\* C3 as claimed: for any frame containing col and any z, add_zscore_outlier_flag
\* leaves the caller's frame unchanged and returns a frame of the same row count
\* equal to the input plus the two columns <col>_z and <col>_is_outlier, the flag
\* true exactly when |value - mean| / population std > z; with zero std the z
\* value is NaN, every flag false, and no error is raised.
C3_Original ==
    /\ [](C3_IsCall => (ret.status = "ok" /\ C3_DerivedColumns /\ C3_InputPlusTwo))
    /\ [][call'.op = "add_zscore_outlier_flag" => df' = df]_vars

\* C3 as amended: as claimed, except that the returned frame equals the input on
\* every column other than <col>_z and <col>_is_outlier: these two are appended
\* when the input lacks them and overwritten in place when it already has them.
C3_ZscoreFlag ==
    /\ [](C3_IsCall => (ret.status = "ok" /\ C3_DerivedColumns /\ C3_InputButTwo))
    /\ [][call'.op = "add_zscore_outlier_flag" => df' = df]_vars
C3_Witness ==
    /\ C3_IsCall /\ call.arg = TestZFrame /\ call.z2 = 4 /\ ~call.fromRet
    /\ df = TestZFrame
    /\ GetColumn(ret.value, OutlierName(<<"x">>)).cells[4] = PyBool(TRUE)
    /\ GetColumn(ret.value, OutlierName(<<"x">>)).cells[3] = PyBool(FALSE)

---------------------------------------------------------------------------
(* C5, C10 *)

RECURSIVE Flatten(_)
Flatten(ss) == IF ss = <<>> THEN <<>> ELSE Head(ss) \o Flatten(Tail(ss))

\* s without its leading and trailing whitespace
ExpTrim(s) ==
    LET keep == {i \in DOMAIN s : ~IsSpace(s[i])}
    IN  IF keep = {} THEN <<>>
        ELSE SubSeq(s, CHOOSE i \in keep : \A j \in keep : i <= j,
                       CHOOSE i \in keep : \A j \in keep : i >= j)
\* s with every maximal run of characters outside W replaced by one underscore
ExpReplaceRuns(s, W) ==
    Flatten([i \in DOMAIN s |->
                IF s[i] \in W THEN <<s[i]>>
                ELSE IF i = 1 \/ s[i - 1] \in W THEN <<"_">>
                ELSE <<>>])
ExpLower(s) == Flatten([i \in DOMAIN s |-> LowerChar(s[i])])
\* a column name trimmed, then cleaned of the runs outside W, then lowercased
ExpName(s, W) == ExpLower(ExpReplaceRuns(ExpTrim(s), W))

\* every character of the model, and those of them that are Unicode word
\* characters (alphanumeric or underscore)
AllChars ==
    AsciiWordChars \cup UnicodeAlnum \cup NameAlphabet \cup {"$", "\t", "\n", "U+0307"}
UnicodeWordChars == {c \in AllChars : c \in AsciiWordChars \/ c \in UnicodeAlnum}

\* fix_col_names returned the frame with the same data and each name rewritten
\* with W as the characters kept
C5_Renamed(W) ==
    call.op = "fix_col_names" =>
        /\ ret.status = "ok"
        /\ ret.value.nrows = call.arg.nrows
        /\ Len(ret.value.cols) = Len(call.arg.cols)
        /\ \A i \in DOMAIN call.arg.cols :
             /\ ret.value.cols[i].cells = call.arg.cols[i].cells
             /\ ret.value.cols[i].dtype = call.arg.cols[i].dtype
             /\ ret.value.cols[i].name = ExpName(call.arg.cols[i].name, W)

\* C5 as claimed: fix_col_names returns a new frame with identical data, the same
\* number and order of columns, each name trimmed, then every maximal run of
\* characters outside [a-zA-Z0-9_] replaced by one underscore, then lowercased;
\* the original frame's column names are unchanged after the call.
C5_Original ==
    /\ [](C5_Renamed(AsciiWordChars))
    /\ [][call'.op = "fix_col_names" => df' = df]_vars

\* C5 as amended: as claimed, with the replaced runs made of the characters that
\* are not Unicode word characters (not alphanumeric and not the underscore), so
\* that a non-ASCII letter such as e-acute is kept, not replaced.
C5_FixColNames ==
    /\ [](C5_Renamed(UnicodeWordChars))
    /\ [][call'.op = "fix_col_names" => df' = df]_vars
C5_Witness ==
    /\ call.op = "fix_col_names" /\ call.arg = TestNameFrame /\ df = TestNameFrame
    /\ ColumnNames(ret.value)
         = <<<<"a", "m", "o", "u", "n", "t">>, <<"u", "s", "e", "r", "_", "i", "d">>,
             <<"t", "o", "t", "a", "l", "_">>>>

\* C10: fix_col_names is idempotent: the column names of
\* fix_col_names(fix_col_names(df)) equal those of fix_col_names(df).
C10_Idempotent ==
    (call.op = "fix_col_names" /\ call.fromRet /\ call.prev = "fix_col_names") =>
        ColumnNames(ret.value) = ColumnNames(call.arg)

---------------------------------------------------------------------------
(* C1 *)

\* k is the ceiling of a positive quantity q, given the test Geq(j) for j >= q
ExpIsCeil(Geq(_), k) == k >= 1 /\ Geq(k) /\ ~Geq(k - 1)

\* C1: for a series with n >= 1 non-missing values, histogram_bin_counts returns
\* exactly the keys square_root, sturges, scott and freedman_diaconis, each an
\* integer >= 1, with square_root = ceil(sqrt(n)), sturges = ceil(1 + log2(n)),
\* and scott / freedman_diaconis equal to 1 when the range is zero or the width
\* (3.5*sample_std/n^(1/3), resp. 2*IQR/n^(1/3)) is not > 0, and
\* ceil(range/width) otherwise; n counts the non-missing values.
C1_BinCounts ==
    (call.op = "histogram_bin_counts" /\ NonMissing(series.values) # <<>>) =>
        LET xs == NonMissing(series.values)
            n == Len(xs)
            range == OrderStat(xs, n) - OrderStat(xs, 1)
            \* sample variance = D / (n * (n - 1))
            D == ExpPopVarN2(xs)
            g == Gcd(D, n * (n - 1))
            iqr4 == ExpQuantile4(xs, 3) - ExpQuantile4(xs, 1)
            v == ret.value
            \* j * 3.5 * std / n^(1/3) >= range
            ScottGeq(j) == CubeGeq(49 * j * j * (D \div g),
                                   4 * range * range * ((n * (n - 1)) \div g), n * n)
            \* j * 2 * IQR / n^(1/3) >= range
            FdGeq(j) == CubeGeq(j * iqr4, 2 * range, n)
        IN  /\ ret.status = "ok"
            /\ DOMAIN v = {"square_root", "sturges", "scott", "freedman_diaconis"}
            /\ \A key \in DOMAIN v : v[key] \in Nat /\ v[key] >= 1
            /\ (v.square_root - 1) * (v.square_root - 1) < n
            /\ n <= v.square_root * v.square_root
            /\ Pow2(v.sturges - 1) >= n
            /\ v.sturges >= 2 => Pow2(v.sturges - 2) < n
            /\ IF range = 0 \/ n < 2 \/ D <= 0 THEN v.scott = 1
               ELSE ExpIsCeil(ScottGeq, v.scott)
            /\ IF range = 0 \/ iqr4 <= 0 THEN v.freedman_diaconis = 1
               ELSE ExpIsCeil(FdGeq, v.freedman_diaconis)
C1_Witness ==
    /\ call.op = "histogram_bin_counts" /\ ret.status = "ok"
    /\ \E i \in DOMAIN series.values : IsNA(series.values[i])
    /\ ret.value.scott > 1 /\ ret.value.freedman_diaconis > 1
    /\ ret.value.square_root * ret.value.square_root >= Len(series.values) - 1

---------------------------------------------------------------------------
(* C6 *)

\* the Axes the caller passed, untouched (None when the call took none)
ExpUntouchedAx == IF "useAx" \in DOMAIN call /\ call.useAx THEN BlankAxes ELSE PyNone

\* C6: when the series has no non-missing value (empty or all missing), qq_plot,
\* histogram_plot, cdf_plot and histogram_bin_counts fail with a ValueError and
\* produce no output: nothing is returned, and no drawing primitive, title or
\* label has been applied to the Axes the caller supplied.
C6_EmptyInputFails ==
    (/\ call.op \in {"qq_plot", "histogram_plot", "cdf_plot", "histogram_bin_counts"}
     /\ NonMissing(series.values) = <<>>) =>
        /\ ret = [status |-> "ValueError"]
        /\ ax = ExpUntouchedAx
C6_Witness ==
    /\ call.op = "qq_plot" /\ call.useAx
    /\ series.values # <<>> /\ NonMissing(series.values) = <<>>
    /\ ret.status = "ValueError" /\ ax = BlankAxes

---------------------------------------------------------------------------
(* C7 *)

\* the artists of the Axes a successful call returned
ExpArtists == ret.value.axes.artists

\* C7: for a series with a non-missing value, histogram_plot raises a validation
\* error for every bins that is not a positive integer (TypeError when it is not
\* an integer, ValueError when it is less than 1; either for a non-integer below
\* 1) and never turns it into a usable bin count; for an integer bins >= 1 it
\* draws a histogram with exactly that many bins and returns the Axes drawn on.
C7_BinsValidated ==
    (call.op = "histogram_plot" /\ NonMissing(series.values) # <<>>) =>
        LET bins == call.bins
        IN  CASE bins.t = "int" /\ bins.n >= 1 ->
                   /\ ret.status = "ok"
                   /\ Len(ExpArtists) = 1
                   /\ ExpArtists[1].kind = "hist" /\ ExpArtists[1].bins = bins.n
                   /\ call.useAx => (ret.value.obj = "alias" /\ ax = ret.value.axes)
              [] bins.t = "int" /\ bins.n < 1 -> ret.status = "ValueError"
              [] bins.t = "float" /\ bins.num < bins.den ->
                   ret.status \in {"TypeError", "ValueError"}
              [] bins.t = "bool" -> TRUE
              [] OTHER -> ret.status = "TypeError"

---------------------------------------------------------------------------
(* C8 *)

\* C8: for a series with a non-missing value, the label of the step line cdf_plot
\* draws is the label argument when the caller passes one, and otherwise the
\* Series name when the series has one, or "Empirical CDF" when it has none.
C8_StepLabel ==
    (call.op = "cdf_plot" /\ NonMissing(series.values) # <<>>) =>
        /\ ret.status = "ok"
        /\ Len(ExpArtists) = 1 /\ ExpArtists[1].kind = "step"
        /\ (call.passed /\ call.label # PyNone) => ExpArtists[1].label = call.label
        /\ ~call.passed =>
              ExpArtists[1].label = IF series.name # PyNone /\ series.name.s # <<>>
                                    THEN series.name ELSE PyStr(<<"Empirical CDF">>)

---------------------------------------------------------------------------
(* C9 *)

\* the numeric columns plotted: those asked for (every one by default) that are
\* numeric, the segmentation column left out
ExpBoxColumns ==
    LET asked == IF call.value_columns = PyNone THEN ColumnNames(df)
                 ELSE call.value_columns.v
        plotted(c) == /\ HasColumn(df, c)
                      /\ GetColumn(df, c).dtype \in {"int64", "float64"}
                      /\ call.segment_on # PyNone => c # call.segment_on.s
    IN  SelectSeq(asked, plotted)
\* the distinct non-missing values of the segmentation column, sorted
ExpSegmentValues == GroupKeys(GetColumn(df, call.segment_on.s).cells)
\* the non-missing observations of the plotted columns in the rows whose
\* segmentation value is key, row by row
ExpSegmentData(key) ==
    LET cols == ExpBoxColumns
        w == Len(cols)
        all == [p \in 1..(df.nrows * w) |->
                   [row |-> ((p - 1) \div w) + 1,
                    cell |-> GetColumn(df, cols[((p - 1) % w) + 1]).cells[((p - 1) \div w) + 1]]]
        kept(e) == /\ GetColumn(df, call.segment_on.s).cells[e.row] = key
                   /\ ~IsNA(e.cell)
        sel == SelectSeq(all, kept)
    IN  [i \in DOMAIN sel |-> sel[i].cell.n]
\* one group per plotted column, or per segmentation value, empty ones included
ExpAllGroups ==
    IF call.segment_on = PyNone
    THEN [i \in DOMAIN ExpBoxColumns |->
             NonMissing(GetColumn(df, ExpBoxColumns[i]).cells)]
    ELSE [i \in DOMAIN ExpSegmentValues |-> ExpSegmentData(ExpSegmentValues[i])]
ExpNonEmptyGroups == LET nonEmpty(d) == d # <<>> IN SelectSeq(ExpAllGroups, nonEmpty)

\* the conditions under which box_plot is to fail
ExpBoxInvalid ==
    \/ /\ call.value_columns # PyNone
       /\ \E i \in DOMAIN call.value_columns.v : ~HasColumn(df, call.value_columns.v[i])
    \/ call.segment_on # PyNone /\ ~HasColumn(df, call.segment_on.s)
    \/ ExpBoxColumns = <<>>
    \/ \A i \in DOMAIN ExpAllGroups : ExpAllGroups[i] = <<>>

\* box_plot fails with a ValueError and nothing drawn exactly when it is to
C9_FailsBeforeDrawing ==
    IF ExpBoxInvalid
    THEN ret = [status |-> "ValueError"] /\ ax = ExpUntouchedAx
    ELSE /\ ret.status = "ok"
         /\ Len(ExpArtists) = 1 /\ ExpArtists[1].kind = "boxplot"
         /\ \A i \in DOMAIN ExpArtists[1].data :
                ExpArtists[1].data[i] \in Seq(Int)
         /\ Len(ret.value.axes.ticks.labels) = Len(ExpArtists[1].data)

====
